---------------------------- MODULE Spec2Model ----------------------------
(***************************************************************************)
(* Model of the AI Code Editor backend (src/backend/api.py and             *)
(* src/backend/ai_engine.py): the AIEngine availability probe, the five    *)
(* prompt builders, the generation router with its fallback chain, the     *)
(* local llama.cpp invocation with its scratch prompt file, and the        *)
(* WebSocket handler that wraps every result in a response envelope.       *)
(*                                                                         *)
(* Python strings are TLA+ strings; str methods (lower, strip, split,      *)
(* startswith, endswith, in, slicing) are operators computed character by  *)
(* character.  A TLA+ string cannot hold a backquote, so the Markdown      *)
(* code fence of the prompt templates is written with the Fence            *)
(* definition.  Optional[str] is a tuple: <<>> is None, <<s>> is s.        *)
(* A decoded JSON value is a record [t |-> type tag, v |-> payload].       *)
(***************************************************************************)
EXTENDS Integers, Sequences, FiniteSets, TLC

(***************************************************************************)
(* Bounds of the model                                                     *)
(***************************************************************************)
\* initialize() calls before the server starts (startup + re-initializations)
MaxInits == 2
\* names the temporary directory can hand out for scratch prompt files
MaxTmp == 2
\* client connections the server accepts
MaxClients == 2

(***************************************************************************)
(* Python str operations                                                   *)
(***************************************************************************)
Min(a, b) == IF a < b THEN a ELSE b

CharAt(s, i) == SubSeq(s, i, i)

UpperChars == "ABCDEFGHIJKLMNOPQRSTUVWXYZ"

LowerChars == "abcdefghijklmnopqrstuvwxyz"

LowerChar(c) ==
  IF \E i \in 1..Len(UpperChars) : CharAt(UpperChars, i) = c
  THEN CharAt(LowerChars, CHOOSE i \in 1..Len(UpperChars) : CharAt(UpperChars, i) = c)
  ELSE c

RECURSIVE LowerRange(_, _, _)
\* the characters lo..hi of s in lower case (split in halves to keep the
\* evaluation shallow)
LowerRange(s, lo, hi) ==
  IF lo > hi THEN ""
  ELSE IF lo = hi THEN LowerChar(CharAt(s, lo))
  ELSE LET mid == (lo + hi) \div 2
       IN LowerRange(s, lo, mid) \o LowerRange(s, mid + 1, hi)

\* str.lower()
Lower(s) == LowerRange(s, 1, Len(s))

\* k in s
Contains(s, k) ==
  \E i \in 1..(Len(s) - Len(k) + 1) : SubSeq(s, i, i + Len(k) - 1) = k

\* s.startswith(p)
StartsWith(s, p) == Len(p) <= Len(s) /\ SubSeq(s, 1, Len(p)) = p

\* s.endswith(p)
EndsWith(s, p) ==
  Len(p) <= Len(s) /\ SubSeq(s, Len(s) - Len(p) + 1, Len(s)) = p

\* s[:n]
Prefix(s, n) == SubSeq(s, 1, Min(n, Len(s)))

IsSpace(c) == c \in {" ", "\n", "\t", "\r", "\f"}

RECURSIVE LStrip(_)
LStrip(s) ==
  IF s = "" THEN ""
  ELSE IF IsSpace(CharAt(s, 1)) THEN LStrip(SubSeq(s, 2, Len(s))) ELSE s

RECURSIVE RStrip(_)
RStrip(s) ==
  IF s = "" THEN ""
  ELSE IF IsSpace(CharAt(s, Len(s))) THEN RStrip(SubSeq(s, 1, Len(s) - 1)) ELSE s

\* str.strip()
Strip(s) == RStrip(LStrip(s))

RECURSIVE SplitFrom(_, _)
\* the lines of s from position start on, one step per line
SplitFrom(s, start) ==
  LET nls == { i \in start..Len(s) : CharAt(s, i) = "\n" }
  IN IF nls = {} THEN << SubSeq(s, start, Len(s)) >>
     ELSE LET i == CHOOSE k \in nls : \A j \in nls : k <= j
          IN << SubSeq(s, start, i - 1) >> \o SplitFrom(s, i + 1)

\* s.split('\n')
SplitLines(s) == SplitFrom(s, 1)

RECURSIVE JoinLines(_)
\* '\n'.join(lines)
JoinLines(lines) ==
  IF lines = << >> THEN ""
  ELSE IF Len(lines) = 1 THEN lines[1]
  ELSE lines[1] \o "\n" \o JoinLines(Tail(lines))

(***************************************************************************)
(* Python values                                                           *)
(***************************************************************************)
None == << >>

Some(s) == << s >>

\* truth value of an Optional[str]: None and '' are false
Truthy(o) == o # None /\ o[1] # ""

JStr(s) == [t |-> "str", v |-> s]

JNull == [t |-> "null", v |-> ""]

JList == [t |-> "list", v |-> ""]

Absent == [t |-> "absent", v |-> ""]

\* str(x) as an f-string renders a decoded JSON value
PyStr(j) ==
  CASE j.t = "str" -> j.v
    [] j.t = "null" -> "None"
    [] j.t = "list" -> "[]"
    [] OTHER -> ""

\* a JSON object used as the options mapping; m maps keys to strings
JObj(m) == [t |-> "obj", m |-> m]

EmptyDict == [k \in {} |-> ""]

\* dict.get(key, default)
DictGet(d, k, default) == IF k \in DOMAIN d THEN d[k] ELSE default

(***************************************************************************)
(* AIEngine: personas and prompt builders                                  *)
(***************************************************************************)
personas ==
  [teacher |->
     [system_prompt |-> "You are a patient, educational programming teacher. Explain concepts clearly with examples and encourage learning. Use simple language and provide step-by-step explanations.",
      style |-> "educational"],
   hacker |->
     [system_prompt |-> "You are a skilled, efficient hacker-style programmer. Give concise, advanced solutions. Focus on performance, clever tricks, and cutting-edge techniques. Be direct and technical.",
      style |-> "advanced"],
   reviewer |->
     [system_prompt |-> "You are a thorough code reviewer. Analyze code quality, suggest improvements, point out potential issues, and recommend best practices. Be constructive and detailed.",
      style |-> "analytical"]]

\* the three-backquote Markdown fence of the prompt templates
Fence == "'''"

\* a list used as a dict key raises TypeError
Hashable(j) == j.t # "list"

UnhashableError == "unhashable type: 'list'"

\* self.personas.get(persona, self.personas[default]), for a hashable persona
PersonaGet(persona, default) ==
  IF persona.t = "str" /\ persona.v \in DOMAIN personas
  THEN personas[persona.v] ELSE personas[default]

ExplainPrompt(code, persona) ==
  "\n" \o PersonaGet(persona, "teacher").system_prompt
  \o "\n\nPlease explain the following code:\n\n" \o Fence \o "\n" \o PyStr(code) \o "\n" \o Fence
  \o "\n\nExplain what this code does, how it works, and any important concepts involved.\n"

\* faulty variant of TranslatePrompt: the closing sentence does not ask to
\* explain the differences
TranslatePrompt_no_explain(code, target_language, persona) ==
  "\n" \o PersonaGet(persona, "teacher").system_prompt
  \o "\n\nPlease translate the following code to " \o target_language \o ":\n\n"
  \o Fence \o "\n" \o PyStr(code) \o "\n" \o Fence
  \o "\n\nProvide the translated code.\n"

TranslatePrompt(code, target_language, persona) ==
  "\n" \o PersonaGet(persona, "teacher").system_prompt
  \o "\n\nPlease translate the following code to " \o target_language \o ":\n\n"
  \o Fence \o "\n" \o PyStr(code) \o "\n" \o Fence
  \o "\n\nProvide the translated code and explain any important differences or considerations.\n"

\* faulty variant of OptimizePrompt: an unknown persona gets the teacher
\* profile
OptimizePrompt_teacher_default(code, persona) ==
  "\n" \o PersonaGet(persona, "teacher").system_prompt
  \o "\n\nPlease optimize the following code for better performance, readability, and maintainability:\n\n"
  \o Fence \o "\n" \o PyStr(code) \o "\n" \o Fence
  \o "\n\nProvide the optimized version and explain what improvements were made.\n"

OptimizePrompt(code, persona) ==
  "\n" \o PersonaGet(persona, "hacker").system_prompt
  \o "\n\nPlease optimize the following code for better performance, readability, and maintainability:\n\n"
  \o Fence \o "\n" \o PyStr(code) \o "\n" \o Fence
  \o "\n\nProvide the optimized version and explain what improvements were made.\n"

ChatPrompt(message, persona) ==
  "\n" \o PersonaGet(persona, "teacher").system_prompt
  \o "\n\nUser message: " \o PyStr(message)
  \o "\n\nPlease respond helpfully as a programming assistant.\n"

FixErrorPrompt(code, error_message, persona) ==
  "\n" \o PersonaGet(persona, "reviewer").system_prompt
  \o "\n\nThe following code is producing an error:\n\nCode:\n"
  \o Fence \o "\n" \o PyStr(code) \o "\n" \o Fence
  \o "\n\nError message:\n" \o Fence \o "\n" \o error_message \o "\n" \o Fence
  \o "\n\nPlease analyze the error, explain what's wrong, and provide a corrected version of the code.\n"

(***************************************************************************)
(* AIEngine: canned fallback text                                          *)
(***************************************************************************)
FallbackExplain ==
  "I'm sorry, but I don't have access to AI services right now. \n            \nTo enable AI features:\n1. For online mode: Set OPENAI_API_KEY or GROQ_API_KEY environment variable\n2. For offline mode: Place a GGML/GGUF model file in the models/ directory and ensure llama.cpp is available\n\nIn the meantime, I can help you with basic code operations through the file explorer and editor."

FallbackTranslate ==
  "I can't translate code without AI services, but here are some general tips:\n\n- Python to JavaScript: Focus on syntax differences (indentation vs braces, def vs function)\n- JavaScript to Python: Watch out for variable scoping and type differences\n- Java to Python: Consider Python's dynamic typing and simpler syntax\n\nPlease set up AI services for full translation capabilities."

FallbackOptimize ==
  "Without AI services, here are general optimization tips:\n\n- Remove unused variables and imports\n- Use appropriate data structures (lists vs sets vs dicts)\n- Avoid nested loops when possible\n- Cache expensive operations\n- Use list comprehensions for simple transformations\n\nSet up AI services for detailed, code-specific optimization suggestions."

FallbackGeneric ==
  "I'm currently running in limited mode without AI services.\n\nTo enable full AI capabilities:\n1. Set OPENAI_API_KEY or GROQ_API_KEY environment variable for online mode\n2. Set up llama.cpp with a local model for offline mode\n\nI can still help you with file operations, editing, and basic code management."

\* faulty variant of generate_fallback_response: the final else branch is
\* missing and the default case yields an empty text
generate_fallback_response_no_default(prompt) ==
  IF Contains(Lower(prompt), "explain") THEN FallbackExplain
  ELSE IF Contains(Lower(prompt), "translate") THEN FallbackTranslate
  ELSE IF Contains(Lower(prompt), "optimize") THEN FallbackOptimize
  ELSE ""

\* faulty variant of generate_fallback_response: the optimize test comes
\* before the translate test
generate_fallback_response_optimize_first(prompt) ==
  IF Contains(Lower(prompt), "explain") THEN FallbackExplain
  ELSE IF Contains(Lower(prompt), "optimize") THEN FallbackOptimize
  ELSE IF Contains(Lower(prompt), "translate") THEN FallbackTranslate
  ELSE FallbackGeneric

generate_fallback_response(prompt) ==
  IF Contains(Lower(prompt), "explain") THEN FallbackExplain
  ELSE IF Contains(Lower(prompt), "translate") THEN FallbackTranslate
  ELSE IF Contains(Lower(prompt), "optimize") THEN FallbackOptimize
  ELSE FallbackGeneric

(***************************************************************************)
(* AIEngine: result strings of the remote and local paths                  *)
(***************************************************************************)
\* generate_online_response when there is no local backend to fall back to
OnlineFailureText(e) == "Sorry, I couldn't process your request. Error: " \o e

NoKeysError == "No online API keys available"

OpenAIImportError == "OpenAI library not available"

GroqImportError == "Requests library not available"

\* the timeout argument of the blocking call behind each remote slot, in
\* seconds; None when the call is made without one
RemoteTimeout(sl) == IF sl = "groq" THEN Some(30) ELSE None

\* str(e) of the exception requests.post raises when its timeout expires
GroqTimeoutError ==
  "HTTPSConnectionPool(host='api.groq.com', port=443): Read timed out. (read timeout=30)"

LocalTimeoutText ==
  "Sorry, the request timed out. Please try again with a shorter prompt."

LocalNonzeroText(stderr) ==
  "Sorry, there was an error processing your request: " \o stderr

LocalExceptionText(e) == "Sorry, I encountered an error: " \o e

LocalEmptyText == "I apologize, but I couldn't generate a proper response."

\* faulty variant of ResponseStart: the loop has no break and ends at the
\* last line that is not blank and does not start with prompt[:50]
ResponseStart_no_break(lines, prompt) ==
  LET hits == { i \in 1..Len(lines) :
                  Strip(lines[i]) # "" /\ ~StartsWith(lines[i], Prefix(prompt, 50)) }
  IN IF hits = {} THEN 1 ELSE CHOOSE i \in hits : \A j \in hits : j <= i

\* index (1-based) of the first line that is not blank and does not start
\* with prompt[:50]; the first line when there is none
ResponseStart(lines, prompt) ==
  LET hits == { i \in 1..Len(lines) :
                  Strip(lines[i]) # "" /\ ~StartsWith(lines[i], Prefix(prompt, 50)) }
  IN IF hits = {} THEN 1 ELSE CHOOSE i \in hits : \A j \in hits : i <= j

\* the returncode == 0 branch of generate_offline_response
CleanLocalOutput(stdout, prompt) ==
  LET response == Strip(stdout)
      lines == SplitLines(response)
      cleaned_response ==
        Strip(JoinLines(SubSeq(lines, ResponseStart(lines, prompt), Len(lines))))
  IN IF cleaned_response # "" THEN cleaned_response ELSE LocalEmptyText

(***************************************************************************)
(* State                                                                   *)
(***************************************************************************)
VARIABLES
  \* AIEngine fields
  online_mode_available, offline_mode_available,
  openai_api_key, groq_api_key, llama_model_path, llama_executable,
  \* AICodeEditorBackend.connected_clients
  connected_clients,
  \* position of main(): "starting" until start_server, then "serving"
  phase,
  \* initialize() calls that main() may still make before it starts the server
  inits,
  \* scratch prompt files that exist in the temporary directory
  tmpfiles,
  \* per client: position of its handle_client coroutine
  pc,
  \* per client, for the message being handled (the locals of handle_message
  \* and of the calls below it): the fields extracted, the prompt composed,
  \* the remote slot awaited, the scratch file in use, the calls made so
  \* far, what run_llama came back with, the envelope built
  request, prompt, slot, scratch, trace, result, envelope

engineVars ==
  << online_mode_available, offline_mode_available, openai_api_key,
     groq_api_key, llama_model_path, llama_executable >>

msgVars == << request, prompt, slot, scratch, trace, result, envelope >>

vars ==
  << online_mode_available, offline_mode_available, openai_api_key,
     groq_api_key, llama_model_path, llama_executable, connected_clients,
     phase, inits, tmpfiles, pc, request, prompt, slot, scratch, trace,
     result, envelope >>

Clients == 1..MaxClients

NoRequest ==
  [action |-> Absent, content |-> Absent, persona |-> Absent, mode |-> Absent,
   options |-> Absent]

Init ==
  /\ online_mode_available = FALSE
  /\ offline_mode_available = FALSE
  /\ openai_api_key = None
  /\ groq_api_key = None
  /\ llama_model_path = None
  /\ llama_executable = None
  /\ connected_clients = {}
  /\ phase = "starting"
  /\ inits = MaxInits
  /\ tmpfiles = {}
  /\ pc = [c \in Clients |-> "new"]
  /\ request = [c \in Clients |-> NoRequest]
  /\ prompt = [c \in Clients |-> ""]
  /\ slot = [c \in Clients |-> ""]
  /\ scratch = [c \in Clients |-> None]
  /\ trace = [c \in Clients |-> << >>]
  /\ result = [c \in Clients |-> None]
  /\ envelope = [c \in Clients |-> None]

(***************************************************************************)
(* AIEngine.initialize and setup_offline_mode                              *)
(***************************************************************************)
\* os.path.dirname(__file__)
BackendDir == "backend"

\* platform.system().lower() of the host
System == "linux"

executable_name == IF System = "windows" THEN "llama.exe" ELSE "llama"

possible_paths ==
  << BackendDir \o "/" \o executable_name,
     BackendDir \o "/llama.cpp/" \o executable_name,
     executable_name >>

ModelExtensions == {".ggml", ".bin", ".gguf"}

IsModelFile(file) == \E ext \in ModelExtensions : EndsWith(file, ext)

\* the environments initialize() can run in: the two credentials, the
\* listing of the models directory (None when the directory is missing) and
\* the candidate paths for which os.path.exists or the --version probe
\* succeeds
EnvKeysOpenAI == {Some(""), Some("sk-1")}

EnvKeysGroq == {None, Some("gsk-1")}

EnvListings ==
  { << >>, << << "README.md" >> >>, << << "notes.txt", "b.bin", "a.gguf" >> >> }

EnvExecutables == { {}, {3}, {2, 3} }

\* the model file the directory scan of setup_offline_mode stops at
FirstModel(listing) ==
  LET files == listing[1]
      hits == { i \in 1..Len(files) : IsModelFile(files[i]) }
  IN IF listing = None \/ hits = {} THEN None
     ELSE Some(BackendDir \o "/models/" \o files[CHOOSE i \in hits : \A j \in hits : i <= j])

\* the candidate path the executable search of setup_offline_mode stops at
FirstExecutable(found) ==
  IF found = {} THEN None
  ELSE Some(possible_paths[CHOOSE i \in found : \A j \in found : i <= j])

\* faulty variant of Initialize: setup_offline_mode starts from empty paths
\* and leaves the flag as it was when nothing is found
Initialize_resets_paths(okey, gkey, listing, found) ==
  /\ phase = "starting"
  /\ inits > 0
  /\ inits' = inits - 1
  /\ openai_api_key' = okey
  /\ groq_api_key' = gkey
  /\ online_mode_available' =
       IF Truthy(okey) \/ Truthy(gkey) THEN TRUE ELSE online_mode_available
  /\ llama_model_path' = FirstModel(listing)
  /\ llama_executable' = FirstExecutable(found)
  /\ offline_mode_available' =
       IF Truthy(FirstModel(listing)) /\ Truthy(FirstExecutable(found))
       THEN TRUE ELSE offline_mode_available
  /\ UNCHANGED << connected_clients, phase, tmpfiles, pc, msgVars >>

Initialize(okey, gkey, listing, found) ==
  LET model == IF FirstModel(listing) # None THEN FirstModel(listing)
               ELSE llama_model_path
      exe == IF FirstExecutable(found) # None THEN FirstExecutable(found)
             ELSE llama_executable
  IN /\ phase = "starting"
     /\ inits > 0
     /\ inits' = inits - 1
     /\ openai_api_key' = okey
     /\ groq_api_key' = gkey
     /\ online_mode_available' =
          IF Truthy(okey) \/ Truthy(gkey) THEN TRUE ELSE online_mode_available
     /\ llama_model_path' = model
     /\ llama_executable' = exe
     /\ offline_mode_available' =
          IF Truthy(model) /\ Truthy(exe) THEN TRUE ELSE offline_mode_available
     /\ UNCHANGED << connected_clients, phase, tmpfiles, pc, msgVars >>

\* faulty variant of StartServer: main() starts the server without having
\* called initialize()
StartServer_without_initialize ==
  /\ phase = "starting"
  /\ phase' = "serving"
  /\ inits' = 0
  /\ UNCHANGED << engineVars, connected_clients, tmpfiles, pc, msgVars >>

\* main(): initialize() has run, start_server() begins to accept clients
StartServer ==
  /\ phase = "starting"
  /\ inits < MaxInits
  /\ phase' = "serving"
  /\ inits' = 0
  /\ UNCHANGED << engineVars, connected_clients, tmpfiles, pc, msgVars >>

(***************************************************************************)
(* AIEngine: the generation router.  Each operator computes how far the    *)
(* request runs before it next awaits an external call, returns or raises: *)
(*   at    "remote" (a remote slot is being called), "local" (the llama    *)
(*         subprocess is running), "done" (text is returned to             *)
(*         process_request) or "raise" (text is the description of an      *)
(*         exception that reaches process_request)                         *)
(*   slot  the remote slot called, scratch the scratch file created,       *)
(*   trace the calls made so far.                                          *)
(* tmp is what tempfile.NamedTemporaryFile does if it is called: Some(n)   *)
(* creates the unused name n, None raises OSError.                         *)
(***************************************************************************)
TmpError == "[Errno 28] No space left on device"

Step(at, sl, file, tr, text) ==
  [at |-> at, slot |-> sl, scratch |-> file, trace |-> tr, text |-> text]

\* faulty variant of generate_offline_response: the prompt is written to a
\* file of a fixed name
generate_offline_response_fixed_name(p, tr, tmp) ==
  Step("local", "", Some(1), tr \o << "local", "spawn" >>, "")

\* generate_offline_response up to the await of run_llama
generate_offline_response(p, tr, tmp) ==
  IF tmp = None
  THEN Step("done", "", None, tr \o << "local" >>, LocalExceptionText(TmpError))
  ELSE Step("local", "", tmp, tr \o << "local", "spawn" >>, "")

\* faulty variant of OnlineFailed: a failed remote call goes straight to the
\* canned text although the local backend is configured
OnlineFailed_skips_local(p, tr, e, tmp) ==
  IF offline_mode_available
  THEN Step("done", "", None, tr \o << "online_error", "fallback" >>,
            generate_fallback_response(p))
  ELSE Step("done", "", None, tr \o << "online_error" >>, OnlineFailureText(e))

\* faulty variant of OnlineFailed: without a local backend the canned text is
\* returned instead of the failure description
OnlineFailed_canned(p, tr, e, tmp) ==
  IF offline_mode_available
  THEN generate_offline_response(p, tr \o << "online_error" >>, tmp)
  ELSE Step("done", "", None, tr \o << "online_error", "fallback" >>,
            generate_fallback_response(p))

\* faulty variant of OnlineFailed: without a local backend the exception is
\* raised again and reaches process_request
OnlineFailed_reraises(p, tr, e, tmp) ==
  IF offline_mode_available
  THEN generate_offline_response(p, tr \o << "online_error" >>, tmp)
  ELSE Step("raise", "", None, tr \o << "online_error" >>, e)

\* the except branch of generate_online_response
OnlineFailed(p, tr, e, tmp) ==
  IF offline_mode_available
  THEN generate_offline_response(p, tr \o << "online_error" >>, tmp)
  ELSE Step("done", "", None, tr \o << "online_error" >>, OnlineFailureText(e))

\* faulty variant of generate_online_response: the two credential checks are
\* in the other order
generate_online_response_groq_first(p, tr, tmp) ==
  IF Truthy(groq_api_key)
  THEN Step("remote", "groq", None, tr \o << "online", "groq" >>, "")
  ELSE IF Truthy(openai_api_key)
  THEN Step("remote", "openai", None, tr \o << "online", "openai" >>, "")
  ELSE OnlineFailed(p, tr \o << "online" >>, NoKeysError, tmp)

\* generate_online_response up to the await of the remote call
generate_online_response(p, tr, tmp) ==
  IF Truthy(openai_api_key)
  THEN Step("remote", "openai", None, tr \o << "online", "openai" >>, "")
  ELSE IF Truthy(groq_api_key)
  THEN Step("remote", "groq", None, tr \o << "online", "groq" >>, "")
  ELSE OnlineFailed(p, tr \o << "online" >>, NoKeysError, tmp)

\* faulty variant of generate_response: when the requested mode is not
\* available the other backend is not tried
generate_response_no_override(p, mode, tr, tmp) ==
  IF mode = JStr("online") /\ online_mode_available
  THEN generate_online_response(p, tr \o << "route" >>, tmp)
  ELSE IF mode = JStr("offline") /\ offline_mode_available
  THEN generate_offline_response(p, tr \o << "route" >>, tmp)
  ELSE Step("done", "", None, tr \o << "route", "fallback" >>,
            generate_fallback_response(p))

generate_response(p, mode, tr, tmp) ==
  IF mode = JStr("online") /\ online_mode_available
  THEN generate_online_response(p, tr \o << "route" >>, tmp)
  ELSE IF mode = JStr("offline") /\ offline_mode_available
  THEN generate_offline_response(p, tr \o << "route" >>, tmp)
  ELSE IF online_mode_available
  THEN generate_online_response(p, tr \o << "route" >>, tmp)
  ELSE IF offline_mode_available
  THEN generate_offline_response(p, tr \o << "route" >>, tmp)
  ELSE Step("done", "", None, tr \o << "route", "fallback" >>,
            generate_fallback_response(p))

\* faulty variant of offline_result: no except clause for TimeoutExpired, the
\* timeout is reported by the general except clause
offline_result_no_timeout_clause(out, p) ==
  CASE out.k = "exit0" -> CleanLocalOutput(out.text, p)
    [] out.k = "nonzero" -> LocalNonzeroText(out.text)
    [] out.k = "timeout" -> LocalExceptionText("Command timed out after 60 seconds")
    [] out.k = "launch_error" -> LocalExceptionText(out.text)

\* the text generate_offline_response returns once run_llama has come back
\* with out (exit code 0 or not, TimeoutExpired, or another exception)
offline_result(out, p) ==
  CASE out.k = "exit0" -> CleanLocalOutput(out.text, p)
    [] out.k = "nonzero" -> LocalNonzeroText(out.text)
    [] out.k = "timeout" -> LocalTimeoutText
    [] out.k = "launch_error" -> LocalExceptionText(out.text)

\* whether generate_offline_response reaches os.unlink(prompt_file)
Unlinks(out) == out.k \in {"exit0", "nonzero"}

(***************************************************************************)
(* AICodeEditorBackend.process_request                                     *)
(***************************************************************************)
\* datetime.now().isoformat()
Now == "2024-01-01T00:00:00"

KnownActions == {"explain", "translate", "optimize", "chat", "fix_error"}

IsKnownAction(action) == action.t = "str" /\ action.v \in KnownActions

\* faulty variant of UnknownActionText: the valid actions are not listed
UnknownActionText_no_list(action) == "Unknown action: " \o PyStr(action)

\* faulty variant of UnknownActionText: an unknown action gets the canned
\* fallback text selected by the keywords of the action string
UnknownActionText_canned(action) == generate_fallback_response(PyStr(action))

UnknownActionText(action) ==
  "Unknown action: " \o PyStr(action)
  \o ". Available actions: explain, translate, optimize, chat, fix_error"

NotMappingError(options) ==
  IF options.t = "null" THEN "'NoneType' object has no attribute 'get'"
  ELSE "'list' object has no attribute 'get'"

\* the prompt the action's engine method composes
ComposedPrompt(action, content, persona, options) ==
  CASE action.v = "explain" -> ExplainPrompt(content, persona)
    [] action.v = "translate" ->
         TranslatePrompt(content, DictGet(options.m, "targetLanguage", "python"), persona)
    [] action.v = "optimize" -> OptimizePrompt(content, persona)
    [] action.v = "chat" -> ChatPrompt(content, persona)
    [] action.v = "fix_error" ->
         FixErrorPrompt(content, DictGet(options.m, "error", ""), persona)

\* the exception process_request catches before any prompt is composed:
\* options.get on a value that is not a mapping (translate, fix_error), or
\* an unhashable persona used as a key of self.personas; None if there is none
DispatchError(action, persona, options) ==
  IF action.v \in {"translate", "fix_error"} /\ options.t # "obj"
  THEN Some(NotMappingError(options))
  ELSE IF ~Hashable(persona) THEN Some(UnhashableError)
  ELSE None

\* the envelope process_request returns
success_envelope(response, req) ==
  [success |-> TRUE, response |-> response, action |-> req.action,
   persona |-> req.persona, mode |-> req.mode, timestamp |-> Now]

\* faulty variant of failure_envelope: the exception text is put in the
\* response field as well
failure_envelope_with_response(e, req) ==
  [success |-> FALSE, response |-> e, error |-> e, action |-> req.action,
   timestamp |-> Now]

\* the envelope of the except branch of process_request
failure_envelope(e, req) ==
  [success |-> FALSE, error |-> e, action |-> req.action, timestamp |-> Now]

\* the envelope of the two except branches of handle_message
error_response(e) == [success |-> FALSE, error |-> e, timestamp |-> Now]

InvalidJson == "Invalid JSON format"

\* data.get(key, default) on the decoded message
Get(data, key, default) == IF data[key].t = "absent" THEN default ELSE data[key]

(***************************************************************************)
(* The inputs: messages of a client, outcomes of the external calls        *)
(***************************************************************************)
MsgActions ==
  { JStr("explain"), JStr("translate"), JStr("optimize"), JStr("chat"),
    JStr("fix_error"), JStr("explain_all"), Absent }

MsgContents == { Absent, JStr("Translate this, then OPTIMIZE it") }

\* a chat message that names one keyword of the canned texts only
MsgChatContents == { JStr("Can you OPTIMIZE it?") }

MsgPersonas == { Absent, JStr("hacker"), JStr("reviewer"), JStr("pirate"), JList }

MsgModes == { Absent, JStr("offline"), JStr("auto") }

MsgOptions ==
  { Absent, JObj(("targetLanguage" :> "Go") @@ ("error" :> "NameError: x")), JNull }

Message(wf, action, content, persona, mode, options) ==
  [wf |-> wf, action |-> action, content |-> content, persona |-> persona,
   mode |-> mode, options |-> options]

\* a text that is not JSON, a JSON array, and the JSON objects; an options
\* field is sent with the two actions that read it, and chat has a further
\* message text
Messages ==
  { Message("garbage", Absent, Absent, Absent, Absent, Absent),
    Message("array", Absent, Absent, Absent, Absent, Absent) }
  \cup { Message("object", a, ct, p, m, Absent) :
           a \in MsgActions, ct \in MsgContents, p \in MsgPersonas, m \in MsgModes }
  \cup { Message("object", a, ct, p, m, o) :
           a \in { JStr("translate"), JStr("fix_error") }, ct \in MsgContents,
           p \in MsgPersonas, m \in MsgModes, o \in MsgOptions }
  \cup { Message("object", JStr("chat"), ct, p, m, Absent) :
           ct \in MsgChatContents, p \in MsgPersonas, m \in MsgModes }

\* what a remote call comes back with: a completion text, the client
\* library missing, or any other exception with its description
RemoteOutcomes ==
  { [k |-> "ok", text |-> " Use a list comprehension.\n"],
    [k |-> "import_error", text |-> ""],
    [k |-> "error", text |-> "Connection timed out"] }

\* what subprocess.run comes back with for the prompt p: exit code 0 with a
\* stdout (an answer, the prompt echoed before the answer, or blank), a
\* nonzero exit code with a stderr, TimeoutExpired after 60 seconds, or an
\* OSError when the executable cannot be launched
LocalOutcomes(p) ==
  { [k |-> "exit0", text |-> "Here is the answer.\nDone.\n"],
    [k |-> "exit0", text |-> p \o "Here is the answer.\n"],
    [k |-> "exit0", text |-> " \n"],
    [k |-> "nonzero", text |-> "error: failed to load model"],
    [k |-> "timeout", text |-> ""],
    [k |-> "launch_error", text |-> "[Errno 13] Permission denied" ] }

\* what NamedTemporaryFile can do in the current temporary directory
TmpChoices == { None } \cup { Some(n) : n \in (1..MaxTmp) \ tmpfiles }

(***************************************************************************)
(* AICodeEditorBackend: the connection handler                             *)
(***************************************************************************)
\* handle_client: register_client adds the client and sends the welcome
Connect(c) ==
  /\ phase = "serving"
  /\ pc[c] = "new"
  /\ connected_clients' = connected_clients \cup {c}
  /\ pc' = [pc EXCEPT ![c] = "welcome"]
  /\ UNCHANGED << engineVars, phase, inits, tmpfiles, msgVars >>

\* the welcome message is delivered; the handler enters its message loop
WelcomeSent(c) ==
  /\ pc[c] = "welcome"
  /\ pc' = [pc EXCEPT ![c] = "idle"]
  /\ UNCHANGED << engineVars, connected_clients, phase, inits, tmpfiles, msgVars >>

\* websocket.send raises in register_client, outside the try of
\* handle_client: the handler ends without unregister_client
WelcomeFail(c) ==
  /\ pc[c] = "welcome"
  /\ pc' = [pc EXCEPT ![c] = "closed"]
  /\ UNCHANGED << engineVars, connected_clients, phase, inits, tmpfiles, msgVars >>

\* the request runs on to the state st of the router; when the router has
\* returned or raised, process_request wraps the text or the exception and
\* handle_message goes to send the envelope
Advance(c, req, st) ==
  /\ pc' = [pc EXCEPT ![c] = IF st.at \in {"done", "raise"} THEN "send" ELSE st.at]
  /\ slot' = [slot EXCEPT ![c] = st.slot]
  /\ scratch' = [scratch EXCEPT ![c] = st.scratch]
  /\ tmpfiles' = IF st.scratch = None THEN tmpfiles ELSE tmpfiles \cup {st.scratch[1]}
  /\ trace' = [trace EXCEPT ![c] = st.trace]
  /\ envelope' =
       [envelope EXCEPT ![c] =
          IF st.at = "done" THEN Some(success_envelope(st.text, req))
          ELSE IF st.at = "raise" THEN Some(failure_envelope(st.text, req))
          ELSE None]

\* handle_message does not reach the router: env is what it goes to send
Reply(c, tr, env) ==
  /\ pc' = [pc EXCEPT ![c] = "send"]
  /\ slot' = [slot EXCEPT ![c] = ""]
  /\ scratch' = [scratch EXCEPT ![c] = None]
  /\ trace' = [trace EXCEPT ![c] = tr]
  /\ envelope' = [envelope EXCEPT ![c] = Some(env)]
  /\ prompt' = [prompt EXCEPT ![c] = ""]
  /\ UNCHANGED tmpfiles

\* handle_message from json.loads to the first await: decoding, extraction
\* of the fields, process_request, the engine method and the router
Receive(c, m, tmp) ==
  LET req == [action |-> Get(m, "action", JNull),
              content |-> Get(m, "content", JStr("")),
              persona |-> Get(m, "persona", JStr("teacher")),
              mode |-> Get(m, "mode", JStr("online")),
              options |-> Get(m, "options", JObj(EmptyDict))]
      err == DispatchError(req.action, req.persona, req.options)
      p == ComposedPrompt(req.action, req.content, req.persona, req.options)
  IN /\ pc[c] = "idle"
     /\ UNCHANGED << engineVars, connected_clients, phase, inits, result >>
     /\ IF m.wf = "garbage"
        THEN /\ request' = [request EXCEPT ![c] = NoRequest]
             /\ Reply(c, << "json_error" >>, error_response(InvalidJson))
        ELSE IF m.wf = "array"
        THEN /\ request' = [request EXCEPT ![c] = NoRequest]
             /\ Reply(c, << "not_object" >>, error_response(NotMappingError(JList)))
        ELSE /\ request' = [request EXCEPT ![c] = req]
             /\ IF ~IsKnownAction(req.action)
                THEN Reply(c, << "decoded", "unknown_action" >>,
                           success_envelope(UnknownActionText(req.action), req))
                ELSE IF err # None
                THEN /\ prompt' = [prompt EXCEPT ![c] = ""]
                     /\ Advance(c, req, Step("raise", "", None, << "decoded", "exception" >>, err[1]))
                ELSE /\ prompt' = [prompt EXCEPT ![c] = p]
                     /\ Advance(c, req, generate_response(p, req.mode, << "decoded", "compose" >>, tmp))

\* the remote call of call_openai_api / call_groq_api comes back
RemoteReturn(c, out, tmp) ==
  LET e == IF out.k = "error" THEN out.text
           ELSE IF slot[c] = "openai" THEN OpenAIImportError ELSE GroqImportError
  IN /\ pc[c] = "remote"
     /\ IF out.k = "ok"
        THEN Advance(c, request[c], Step("done", "", None, trace[c], Strip(out.text)))
        ELSE Advance(c, request[c], OnlineFailed(prompt[c], trace[c], e, tmp))
     /\ UNCHANGED << engineVars, connected_clients, phase, inits, request, prompt,
                     result >>

\* the backend of the awaited remote call never answers: requests.post
\* raises after its timeout, a call without a timeout never returns and the
\* handler stays blocked at its await
RemoteSilent(c, tmp) ==
  /\ pc[c] = "remote"
  /\ IF RemoteTimeout(slot[c]) = None
     THEN /\ pc' = [pc EXCEPT ![c] = "blocked"]
          /\ UNCHANGED << tmpfiles, slot, scratch, trace, envelope >>
     ELSE Advance(c, request[c], OnlineFailed(prompt[c], trace[c], GroqTimeoutError, tmp))
  /\ UNCHANGED << engineVars, connected_clients, phase, inits, request, prompt,
                  result >>

\* run_llama comes back: the rest of generate_offline_response, and
\* process_request wraps the text it returns
LocalReturn(c, out) ==
  /\ pc[c] = "local"
  /\ pc' = [pc EXCEPT ![c] = "send"]
  /\ tmpfiles' = IF Unlinks(out) THEN tmpfiles \ {scratch[c][1]} ELSE tmpfiles
  /\ trace' = [trace EXCEPT ![c] = @ \o << out.k >>]
  /\ result' = [result EXCEPT ![c] = Some(out)]
  /\ envelope' =
       [envelope EXCEPT ![c] = Some(success_envelope(offline_result(out, prompt[c]), request[c]))]
  /\ UNCHANGED << engineVars, connected_clients, phase, inits, request, prompt,
                  slot, scratch >>

\* the handler is not handling a message: the locals of handle_message are gone
Forget(c) ==
  /\ request' = [request EXCEPT ![c] = NoRequest]
  /\ prompt' = [prompt EXCEPT ![c] = ""]
  /\ slot' = [slot EXCEPT ![c] = ""]
  /\ scratch' = [scratch EXCEPT ![c] = None]
  /\ trace' = [trace EXCEPT ![c] = << >>]
  /\ result' = [result EXCEPT ![c] = None]
  /\ envelope' = [envelope EXCEPT ![c] = None]

\* faulty variant of Send: after an error envelope is delivered the
\* exception is raised again and ends the loop of handle_client
Send_reraises_after_error(c) ==
  /\ pc[c] = "send"
  /\ pc' = [pc EXCEPT ![c] = IF envelope[c][1].success THEN "idle" ELSE "closed"]
  /\ connected_clients' =
       IF envelope[c][1].success THEN connected_clients ELSE connected_clients \ {c}
  /\ Forget(c)
  /\ UNCHANGED << engineVars, phase, inits, tmpfiles >>

\* websocket.send delivers the envelope; handle_message returns and the loop
\* of handle_client waits for the next message
Send(c) ==
  /\ pc[c] = "send"
  /\ pc' = [pc EXCEPT ![c] = "idle"]
  /\ Forget(c)
  /\ UNCHANGED << engineVars, connected_clients, phase, inits, tmpfiles >>

\* the connection is closed: websocket.send raises ConnectionClosed, also for
\* the error envelope of the except branch, and handle_client unregisters
SendFail(c) ==
  /\ pc[c] = "send"
  /\ pc' = [pc EXCEPT ![c] = "closed"]
  /\ connected_clients' = connected_clients \ {c}
  /\ Forget(c)
  /\ UNCHANGED << engineVars, phase, inits, tmpfiles >>

\* the client closes the connection between two messages
Close(c) ==
  /\ pc[c] = "idle"
  /\ pc' = [pc EXCEPT ![c] = "closed"]
  /\ connected_clients' = connected_clients \ {c}
  /\ UNCHANGED << engineVars, phase, inits, tmpfiles, msgVars >>

(***************************************************************************)
(* Specification: the server with one client connection                    *)
(***************************************************************************)
Next ==
  \/ \E okey \in EnvKeysOpenAI, gkey \in EnvKeysGroq,
        listing \in EnvListings, found \in EnvExecutables :
       Initialize(okey, gkey, listing, found)
  \/ StartServer
  \/ Connect(1)
  \/ WelcomeSent(1)
  \/ WelcomeFail(1)
  \/ \E m \in Messages, tmp \in TmpChoices : Receive(1, m, tmp)
  \/ \E out \in RemoteOutcomes, tmp \in TmpChoices : RemoteReturn(1, out, tmp)
  \/ \E tmp \in TmpChoices : RemoteSilent(1, tmp)
  \/ \E out \in LocalOutcomes(prompt[1]) : LocalReturn(1, out)
  \/ Send(1)
  \/ SendFail(1)
  \/ Close(1)

Spec == Init /\ [][Next]_vars

(***************************************************************************)
(* Vocabulary of the properties                                            *)
(***************************************************************************)
Has(tr, ev) == \E i \in DOMAIN tr : tr[i] = ev

Count(tr, ev) == Cardinality({ i \in DOMAIN tr : tr[i] = ev })

\* position of the first ev in tr
Pos(tr, ev) == CHOOSE i \in DOMAIN tr : tr[i] = ev /\ \A j \in DOMAIN tr : tr[j] = ev => i <= j

Last(tr) == tr[Len(tr)]

\* calls of a remote credential slot
RemoteCalls(tr) == Count(tr, "openai") + Count(tr, "groq")

CannedTexts == { FallbackExplain, FallbackTranslate, FallbackOptimize, FallbackGeneric }

\* the event that follows the entry into generate_response
FirstChoice(c) == trace[c][Pos(trace[c], "route") + 1]

\* the envelope process_request has built for client c
Env(c) == envelope[c][1]

\* the fields have the types of the Request record: persona is an id, options
\* is a mapping
WellTyped(req) == Hashable(req.persona) /\ req.options.t = "obj"

\* a remote slot was called for c and the call failed
RemoteCallFailed(c) ==
  \E i \in DOMAIN trace[c] :
    i > 1 /\ trace[c][i] = "online_error" /\ trace[c][i - 1] \in {"openai", "groq"}

\* the local attempt of c failed: no scratch file, or run_llama came back with
\* a nonzero exit code, a timeout or an exception
LocalFailed(c) ==
  /\ Has(trace[c], "local")
  /\ \/ Last(trace[c]) \in {"nonzero", "timeout", "launch_error"}
     \/ ~Has(trace[c], "spawn")

\* the descriptions str(e) of the exceptions a remote call raises
RemoteErrorTexts ==
  { OpenAIImportError, GroqImportError, GroqTimeoutError } \cup { o.text : o \in { x \in RemoteOutcomes : x.k = "error" } }

(***************************************************************************)
(* C1: generate_response picks the first backend from (mode,               *)
(* online_mode_available, offline_mode_available) alone: online with       *)
(* remote available -> remote; offline with local available -> local; in   *)
(* every other case remote if available, else local if available, else the *)
(* canned text with no backend attempted.  In particular offline with      *)
(* local unavailable and remote available attempts remote.                 *)
(***************************************************************************)
C1_RouterChoice ==
  \A c \in Clients :
    Has(trace[c], "route") =>
      LET mode == request[c].mode
          wantOnline == mode = JStr("online") /\ online_mode_available
          wantOffline == mode = JStr("offline") /\ offline_mode_available
      IN /\ wantOnline => FirstChoice(c) = "online"
         /\ wantOffline => FirstChoice(c) = "local"
         /\ (~wantOnline /\ ~wantOffline) =>
              /\ online_mode_available => FirstChoice(c) = "online"
              /\ (~online_mode_available /\ offline_mode_available) =>
                   FirstChoice(c) = "local"
              /\ (~online_mode_available /\ ~offline_mode_available) =>
                   /\ FirstChoice(c) = "fallback"
                   /\ pc[c] = "send"
                   /\ Env(c).response \in CannedTexts
                   /\ RemoteCalls(trace[c]) = 0
                   /\ ~Has(trace[c], "online") /\ ~Has(trace[c], "local")
         /\ (mode = JStr("offline") /\ ~offline_mode_available /\ online_mode_available) =>
              FirstChoice(c) = "online" /\ ~Has(trace[c], "fallback")

\* offline was requested, local is unavailable, remote is called
C1_Witness ==
  \E c \in Clients :
    /\ request[c].mode = JStr("offline")
    /\ ~offline_mode_available /\ online_mode_available
    /\ pc[c] = "remote"
    /\ FirstChoice(c) = "online"

(***************************************************************************)
(* C2: when a remote call fails and the local backend is configured, the   *)
(* request next makes exactly one local invocation: no second remote call  *)
(* and no canned text.                                                     *)
(***************************************************************************)
C2_RemoteFailureGoesLocal ==
  \A c \in Clients :
    (RemoteCallFailed(c) /\ offline_mode_available) =>
      LET i == Pos(trace[c], "online_error")
      IN /\ Len(trace[c]) > i
         /\ trace[c][i + 1] = "local"
         /\ Count(trace[c], "local") = 1
         /\ RemoteCalls(trace[c]) = 1
         /\ ~Has(trace[c], "fallback")
         /\ pc[c] = "send" => Env(c).response \notin CannedTexts

\* the remote call failed and the llama subprocess is running
C2_Witness ==
  \E c \in Clients :
    /\ RemoteCallFailed(c)
    /\ offline_mode_available
    /\ pc[c] = "local"
    /\ scratch[c] # None

C4_ScratchDeleted ==
  \A c \in Clients :
    (pc[c] = "send" /\ scratch[c] # None) => scratch[c][1] \notin tmpfiles

(***************************************************************************)
(* C5: in every request at most one remote slot is called (OpenAI when its *)
(* credential is non-empty, otherwise Groq; never both), at most one local *)
(* invocation is made, and no remote call follows a local invocation.      *)
(***************************************************************************)
C5_OneRemoteOneLocal ==
  \A c \in Clients :
    /\ RemoteCalls(trace[c]) <= 1
    /\ Count(trace[c], "local") <= 1
    /\ Count(trace[c], "spawn") <= 1
    /\ Has(trace[c], "openai") => Truthy(openai_api_key)
    /\ Has(trace[c], "groq") => (~Truthy(openai_api_key) /\ Truthy(groq_api_key))
    /\ \A i, j \in DOMAIN trace[c] :
         (i < j /\ trace[c][i] = "local") => trace[c][j] \notin {"online", "openai", "groq"}

\* both credentials are set, OpenAI was called and failed, llama was run
C5_Witness ==
  \E c \in Clients :
    /\ Truthy(openai_api_key) /\ Truthy(groq_api_key)
    /\ Has(trace[c], "openai")
    /\ Has(trace[c], "spawn")
    /\ pc[c] = "send"

(***************************************************************************)
(* C6: a failed local attempt (timeout, nonzero exit, or an exception in   *)
(* generate_offline_response) does not raise and is terminal: it returns a *)
(* descriptive failure text (a timeout-specific one on timeout), no remote *)
(* call and no canned text follows even when remote is configured, and the *)
(* envelope has success = true.                                            *)
(***************************************************************************)
C6_LocalFailureTerminal ==
  \A c \in Clients :
    LocalFailed(c) =>
      /\ pc[c] = "send"
      /\ Env(c).success = TRUE
      /\ Last(trace[c]) = "timeout" =>
           Env(c).response = LocalTimeoutText /\ Contains(Env(c).response, "timed out")
      /\ Last(trace[c]) = "nonzero" =>
           StartsWith(Env(c).response, "Sorry, there was an error processing your request: ")
      /\ Last(trace[c]) \in {"launch_error", "local"} =>
           /\ StartsWith(Env(c).response, "Sorry, I encountered an error: ")
           /\ ~Contains(Env(c).response, "timed out")
      /\ Env(c).response \notin CannedTexts
      /\ ~Has(trace[c], "fallback")
      /\ \A i, j \in DOMAIN trace[c] :
           (i < j /\ trace[c][i] = "local") => trace[c][j] \notin {"online", "openai", "groq"}

\* the local run timed out while a remote backend is configured
C6_Witness ==
  \E c \in Clients :
    /\ LocalFailed(c)
    /\ Last(trace[c]) = "timeout"
    /\ online_mode_available /\ Truthy(groq_api_key)
    /\ pc[c] = "send"
    /\ Env(c).success = TRUE

(***************************************************************************)
(* C7: for a request with one of the five actions (its fields typed as the *)
(* Request record), in every availability state and for every combination *)
(* of remote and local success or failure, process_request returns         *)
(* success = true; an envelope with success = false is never the result of *)
(* a backend failure: it is built before any backend has been attempted.   *)
(***************************************************************************)
C7_KnownActionSucceeds ==
  \A c \in Clients :
    (pc[c] = "send" /\ IsKnownAction(request[c].action)) =>
      /\ WellTyped(request[c]) => Env(c).success = TRUE
      /\ Env(c).success = FALSE =>
           /\ trace[c] = << "decoded", "exception" >>
           /\ ~WellTyped(request[c])

\* the remote call failed, then the local run failed, and the envelope built
\* has success = true
C7_Witness ==
  \E c \in Clients :
    /\ pc[c] = "send"
    /\ IsKnownAction(request[c].action)
    /\ RemoteCallFailed(c)
    /\ LocalFailed(c)
    /\ Env(c).success = TRUE

(***************************************************************************)
(* C8: with neither backend available, every request with a valid action   *)
(* (any persona id, any mode) gets success = true with a non-empty         *)
(* response, and no remote call or local invocation is made.               *)
(***************************************************************************)
C8_NoBackendStillAnswers ==
  \A c \in Clients :
    (~online_mode_available /\ ~offline_mode_available) =>
      /\ pc[c] \notin {"remote", "local"}
      /\ (pc[c] = "send" /\ IsKnownAction(request[c].action) /\ WellTyped(request[c])) =>
           /\ Env(c).success = TRUE
           /\ Env(c).response # ""
           /\ Len(Env(c).response) > 0
           /\ RemoteCalls(trace[c]) = 0
           /\ ~Has(trace[c], "online")
           /\ ~Has(trace[c], "local")
           /\ ~Has(trace[c], "spawn")

\* no backend, a chat request whose prompt holds none of the keywords
C8_Witness ==
  \E c \in Clients :
    /\ ~online_mode_available /\ ~offline_mode_available
    /\ pc[c] = "send"
    /\ request[c].action = JStr("chat")
    /\ Env(c).response = FallbackGeneric

(***************************************************************************)
(* C9: for every unknown action value, a missing action included,          *)
(* process_request returns success = true with a text that lists the valid *)
(* actions, without composing a prompt, without entering the router (which *)
(* is what reads the availability flags) and without any backend call.     *)
(***************************************************************************)
C9_UnknownActionInformational ==
  \A c \in Clients :
    (Has(trace[c], "decoded") /\ ~IsKnownAction(request[c].action)) =>
      /\ pc[c] = "send"
      /\ Env(c).success = TRUE
      /\ Contains(Env(c).response, "explain, translate, optimize, chat, fix_error")
      /\ Contains(Env(c).response, PyStr(request[c].action))
      /\ trace[c] = << "decoded", "unknown_action" >>
      /\ prompt[c] = ""
      /\ scratch[c] = None /\ slot[c] = ""

\* a message without an action field
C9_Witness ==
  \E c \in Clients :
    /\ pc[c] = "send"
    /\ Has(trace[c], "decoded")
    /\ request[c].action = JNull
    /\ Env(c).success = TRUE

(***************************************************************************)
(* C10 as stated: for an unknown action the response text is one of the    *)
(* four canned texts (explain, translate, optimize, generic).              *)
(***************************************************************************)
C10_Original ==
  \A c \in Clients :
    (pc[c] = "send" /\ Has(trace[c], "decoded") /\ ~IsKnownAction(request[c].action)) =>
      Env(c).response \in CannedTexts

(***************************************************************************)
(* C10 amended: for an unknown action the response text returned with      *)
(* success = true is the fixed text "Unknown action: <action>. Available   *)
(* actions: explain, translate, optimize, chat, fix_error"; it is none of  *)
(* the four canned texts and no keyword of the action string selects one.  *)
(***************************************************************************)
C10_UnknownActionTextFixed ==
  \A c \in Clients :
    (pc[c] = "send" /\ Has(trace[c], "decoded") /\ ~IsKnownAction(request[c].action)) =>
      /\ Env(c).success = TRUE
      /\ StartsWith(Env(c).response, "Unknown action: ")
      /\ EndsWith(Env(c).response, ". Available actions: explain, translate, optimize, chat, fix_error")
      /\ Env(c).response \notin CannedTexts
      /\ ~Has(trace[c], "fallback")

\* an unknown action whose name holds the keyword explain
C10_Witness ==
  \E c \in Clients :
    /\ pc[c] = "send"
    /\ request[c].action = JStr("explain_all")
    /\ Contains(Lower(PyStr(request[c].action)), "explain")
    /\ StartsWith(Env(c).response, "Unknown action: explain_all")


(***************************************************************************)
(* C11: generate_fallback_response returns a text for every prompt and     *)
(* selects it by a case-insensitive substring match on the whole prompt    *)
(* with a fixed priority: "explain", else "translate", else "optimize",    *)
(* else the generic text; of several keywords the earliest in that order   *)
(* wins.                                                                   *)
(***************************************************************************)
\* the prompt contains the keyword in some mix of upper and lower case
Mentions(p, keyword) == Contains(Lower(p), keyword)

C11_FallbackPriority ==
  \A c \in Clients :
    (pc[c] = "send" /\ Has(trace[c], "fallback")) =>
      LET p == prompt[c]
          text == Env(c).response
      IN /\ text \in CannedTexts
         /\ Mentions(p, "explain") => text = FallbackExplain
         /\ (~Mentions(p, "explain") /\ Mentions(p, "translate")) =>
              text = FallbackTranslate
         /\ (~Mentions(p, "explain") /\ ~Mentions(p, "translate")
             /\ Mentions(p, "optimize")) => text = FallbackOptimize
         /\ (~Mentions(p, "explain") /\ ~Mentions(p, "translate")
             /\ ~Mentions(p, "optimize")) => text = FallbackGeneric

\* a prompt with "Translate" and "OPTIMIZE" in it and no "explain" gets the
\* translate-keyed text
C11_Witness ==
  \E c \in Clients :
    /\ pc[c] = "send" /\ Has(trace[c], "fallback")
    /\ ~Mentions(prompt[c], "explain")
    /\ Contains(prompt[c], "Translate") /\ Contains(prompt[c], "OPTIMIZE")
    /\ Env(c).response = FallbackTranslate

\* the optimize-keyed text is selected for a prompt that has the keyword in
\* upper case only
C11_WitnessOptimize ==
  \E c \in Clients :
    /\ pc[c] = "send" /\ Has(trace[c], "fallback")
    /\ ~Contains(prompt[c], "optimize")
    /\ Env(c).response = FallbackOptimize

\* the generic text is selected
C11_WitnessGeneric ==
  \E c \in Clients :
    /\ pc[c] = "send" /\ Has(trace[c], "fallback")
    /\ Env(c).response = FallbackGeneric

(***************************************************************************)
(* C12: every envelope sent in reply to a message carries exactly one of   *)
(* response and error: response and no error when success is true, error   *)
(* and no response when success is false.  This covers the two envelopes   *)
(* of process_request and the two error envelopes of handle_message.       *)
(***************************************************************************)
Fields(env) == DOMAIN env

C12_ResponseXorError ==
  \A c \in Clients :
    pc[c] = "send" =>
      /\ envelope[c] # None
      /\ "success" \in Fields(Env(c))
      /\ IF Env(c).success
         THEN "response" \in Fields(Env(c)) /\ "error" \notin Fields(Env(c))
         ELSE "error" \in Fields(Env(c)) /\ "response" \notin Fields(Env(c))

\* the except branch of process_request has built its envelope
C12_Witness ==
  \E c \in Clients :
    /\ pc[c] = "send"
    /\ trace[c] = << "decoded", "exception" >>
    /\ ~Env(c).success
    /\ Env(c).error = UnhashableError

(***************************************************************************)
(* C13: every envelope built for a request carries action, persona and     *)
(* mode fields equal to the request's, whether success is true or false.   *)
(***************************************************************************)
C13_EchoesRequest ==
  \A c \in Clients :
    (pc[c] = "send" /\ Has(trace[c], "decoded")) =>
      /\ {"action", "persona", "mode"} \subseteq Fields(Env(c))
      /\ Env(c).action = request[c].action
      /\ Env(c).persona = request[c].persona
      /\ Env(c).mode = request[c].mode

(***************************************************************************)
(* C14: for each of the five actions, a persona id that is not teacher,    *)
(* hacker or reviewer resolves to the teacher profile: the composed prompt *)
(* begins with the teacher system prompt, and no error is raised.          *)
(***************************************************************************)
\* the persona field is an id that names no profile
UnknownPersona(req) == req.persona.t = "str" /\ req.persona.v \notin DOMAIN personas

\* a request for a known action is being handled, with options a mapping
Handling(c) ==
  /\ pc[c] \in {"remote", "local", "send"}
  /\ IsKnownAction(request[c].action)
  /\ request[c].options.t = "obj"

\* the prompt opens with the system prompt of the profile (after the line
\* break the templates start with)
OpensWith(p, profile) == StartsWith(p, "\n" \o personas[profile].system_prompt \o "\n")

\* the claim as stated: the teacher profile for every action
C14_Original ==
  \A c \in Clients :
    (Handling(c) /\ UnknownPersona(request[c])) =>
      /\ Has(trace[c], "compose") /\ ~Has(trace[c], "exception")
      /\ OpensWith(prompt[c], "teacher")

\* the profile an engine method falls back to
DefaultProfile(action) ==
  CASE action.v = "optimize" -> "hacker"
    [] action.v = "fix_error" -> "reviewer"
    [] OTHER -> "teacher"

\* C14 as amended: an unknown persona id resolves to the default profile of
\* the action (teacher for explain, translate and chat, hacker for optimize,
\* reviewer for fix_error), and no error is raised
C14_UnknownPersonaDefault ==
  \A c \in Clients :
    (Handling(c) /\ UnknownPersona(request[c])) =>
      /\ Has(trace[c], "compose") /\ ~Has(trace[c], "exception")
      /\ OpensWith(prompt[c], DefaultProfile(request[c].action))
      /\ (pc[c] = "send" => Env(c).success)

\* optimize with the persona "pirate" has composed its prompt
C14_Witness ==
  \E c \in Clients :
    /\ Handling(c)
    /\ request[c].action = JStr("optimize")
    /\ request[c].persona = JStr("pirate")
    /\ OpensWith(prompt[c], "hacker")

(***************************************************************************)
(* C16: every external call (primary remote, secondary remote, local       *)
(* process) is bounded by an enforced timeout, so a backend that never     *)
(* answers cannot block a request forever: the request returns a result    *)
(* and a hung remote call still reaches the local or failure path.         *)
(***************************************************************************)
C16_NoCallBlocksForever == \A c \in Clients : pc[c] # "blocked"

(***************************************************************************)
(* Specification: the server with several client connections whose         *)
(* handlers interleave at their awaits.  The environment has the secondary *)
(* remote credential and the local backend; the messages are one request   *)
(* routed to the remote slot and one routed to the local process.          *)
(***************************************************************************)
ConcListing == << << "a.gguf" >> >>

ConcMessages ==
  { Message("object", JStr("explain"), Absent, Absent, m, Absent) :
      m \in { Absent, JStr("offline") } }

NextConc ==
  \/ Initialize(Some(""), Some("gsk-1"), ConcListing, {3})
  \/ StartServer
  \/ \E c \in Clients : Connect(c)
  \/ \E c \in Clients : WelcomeSent(c)
  \/ \E c \in Clients : WelcomeFail(c)
  \/ \E c \in Clients, m \in ConcMessages, tmp \in TmpChoices : Receive(c, m, tmp)
  \/ \E c \in Clients, out \in RemoteOutcomes, tmp \in TmpChoices :
       RemoteReturn(c, out, tmp)
  \/ \E c \in Clients, tmp \in TmpChoices : RemoteSilent(c, tmp)
  \/ \E c \in Clients : \E out \in LocalOutcomes(prompt[c]) : LocalReturn(c, out)
  \/ \E c \in Clients : Send(c)
  \/ \E c \in Clients : SendFail(c)
  \/ \E c \in Clients : Close(c)

SpecConc == Init /\ [][NextConc]_vars

(***************************************************************************)
(* C15: two local invocations that overlap in time use distinct scratch    *)
(* files: no invocation writes, passes to its subprocess or deletes the    *)
(* scratch file of another invocation that is in flight.                   *)
(***************************************************************************)
\* the invocation of generate_offline_response for c awaits run_llama
InFlight(c) == pc[c] = "local"

C15_DistinctScratch ==
  \A c1 \in Clients :
    InFlight(c1) =>
      /\ scratch[c1] # None
      /\ scratch[c1][1] \in tmpfiles
      /\ \A c2 \in Clients \ {c1} : InFlight(c2) => scratch[c2] # scratch[c1]

\* two invocations are in flight, one of them reached after a failed remote
\* call
C15_Witness ==
  \E c1, c2 \in Clients :
    /\ c1 # c2
    /\ InFlight(c1) /\ InFlight(c2)
    /\ Has(trace[c1], "online_error")
    /\ scratch[c1] # scratch[c2]

(***************************************************************************)
(* C17: availability is computed before any request is routed and request  *)
(* handling does not change it: initialize() has completed when the server *)
(* starts to accept clients, and from then on no step modifies the two     *)
(* flags, the credentials or the local paths, or runs initialize() again.  *)
(***************************************************************************)
C17_AvailabilityFixed ==
  [][ /\ (phase = "starting" /\ phase' = "serving") => inits < MaxInits
      /\ (\E c \in Clients : pc'[c] # "new") => phase = "serving"
      /\ phase = "serving" => UNCHANGED << engineVars, inits, phase >> ]_vars

\* a request has been routed with the availability initialize() computed
C17_Witness ==
  \E c \in Clients :
    /\ phase = "serving"
    /\ pc[c] = "send"
    /\ Has(trace[c], "route") /\ Has(trace[c], "online_error") /\ Has(trace[c], "exit0")
    /\ online_mode_available /\ offline_mode_available

(***************************************************************************)
(* C18: after any sequence of initialize() calls, online_mode_available is *)
(* true iff at least one of the two remote credentials read by the most    *)
(* recent call is non-empty.                                               *)
(***************************************************************************)
C18_OnlineIffCredential ==
  online_mode_available <=> (Truthy(openai_api_key) \/ Truthy(groq_api_key))

(***************************************************************************)
(* C19: a message that cannot be decoded, or whose processing raises an    *)
(* unexpected exception, produces exactly one success=false envelope whose *)
(* error field describes the failure, and once that envelope is delivered  *)
(* the handler is back in its loop, on the same connection, ready for the  *)
(* next message: such a message does not end the connection loop.          *)
(***************************************************************************)
\* the message c sent was not JSON, was not a JSON object, or raised in
\* process_request, and the envelope for it is about to be sent
FailedMessage(c) ==
  /\ pc[c] = "send"
  /\ trace[c] \in { << "json_error" >>, << "not_object" >>, << "decoded", "exception" >> }

\* the descriptions of the exceptions the messages can raise
ExceptionTexts == { NotMappingError(JList), NotMappingError(JNull), UnhashableError }

C19_FailureIsolated ==
  [][ \A c \in Clients :
        FailedMessage(c) =>
          /\ envelope[c] # None
          /\ ~Env(c).success
          /\ IF trace[c] = << "json_error" >> THEN Env(c).error = InvalidJson
             ELSE Env(c).error \in ExceptionTexts
          /\ Send(c) => (pc'[c] = "idle" /\ c \in connected_clients') ]_vars

\* the envelope for a message that is not JSON is about to be sent
C19_Witness ==
  \E c \in Clients :
    /\ FailedMessage(c)
    /\ trace[c] = << "json_error" >>
    /\ Env(c) = error_response(InvalidJson)
    /\ c \in connected_clients

(***************************************************************************)
(* C20: on a successful local invocation (exit code 0), for every prompt   *)
(* and every raw output, the returned text starts at the first output line *)
(* that is neither blank nor begins with the first 50 characters of the    *)
(* prompt; the leading lines that are blank or begin with that prefix are  *)
(* removed.                                                                *)
(***************************************************************************)
\* run_llama came back with exit code 0 for c and the text is wrapped
LocalSucceeded(c) ==
  pc[c] = "send" /\ result[c] # None /\ result[c][1].k = "exit0"

\* the lines of the raw output
OutputLines(c) == SplitLines(result[c][1].text)

\* the lines among lines that are neither blank nor begin with p[:50]
AnswerLines(lines, p) ==
  { i \in 1..Len(lines) :
      Strip(lines[i]) # "" /\ ~StartsWith(lines[i], Prefix(p, 50)) }

\* the text of the lines from line i on, without surrounding white space
OutputFrom(lines, i) == Strip(JoinLines(SubSeq(lines, i, Len(lines))))

\* the least index in the non-empty set hits
FirstOf(hits) == CHOOSE i \in hits : \A j \in hits : i <= j

\* the claim as stated: every output has such a line and the text starts there
C20_Original ==
  \A c \in Clients :
    LocalSucceeded(c) =>
      LET lines == OutputLines(c)
          hits == AnswerLines(lines, prompt[c])
      IN /\ hits # {}
         /\ Env(c).response = OutputFrom(lines, FirstOf(hits))

\* C20 as amended: an output that has a line that is neither blank nor begins
\* with prompt[:50] is returned from the first such line on; for an output
\* of blank lines only the fixed apology text is returned
C20_StartsAtFirstAnswerLine ==
  \A c \in Clients :
    LocalSucceeded(c) =>
      LET lines == OutputLines(c)
          hits == AnswerLines(lines, prompt[c])
      IN /\ hits # {} => Env(c).response = OutputFrom(lines, FirstOf(hits))
         /\ (\A i \in 1..Len(lines) : Strip(lines[i]) = "") =>
              Env(c).response = LocalEmptyText

\* the output opens with a blank line and the echoed prompt; the text starts
\* at the second output line
C20_Witness ==
  \E c \in Clients :
    /\ LocalSucceeded(c)
    /\ LET lines == OutputLines(c)
       IN /\ Len(lines) > 2
          /\ lines[1] = ""
          /\ FirstOf(AnswerLines(lines, prompt[c])) = 2
          /\ StartsWith(Env(c).response, lines[2])
          /\ Env(c).response # result[c][1].text

(***************************************************************************)
(* C21: with no backend configured, a request with the action explain,     *)
(* translate, optimize or fix_error receives the explain-keyed canned text *)
(* for every persona, content and option value, because each of these      *)
(* templates contains the word "explain"; the translate-keyed and the      *)
(* optimize-keyed text can only be produced by a chat request.             *)
(***************************************************************************)
TemplateActions == { JStr("explain"), JStr("translate"), JStr("optimize"), JStr("fix_error") }

C21_TemplatesGetExplainText ==
  \A c \in Clients :
    pc[c] = "send" =>
      /\ ( /\ request[c].action \in TemplateActions
           /\ WellTyped(request[c])
           /\ ~online_mode_available /\ ~offline_mode_available )
         => (Env(c).success /\ Env(c).response = FallbackExplain)
      /\ (Env(c).success /\ Env(c).response \in { FallbackTranslate, FallbackOptimize })
         => request[c].action = JStr("chat")

\* translate with the hacker persona and a content that names "Translate" and
\* "OPTIMIZE" gets the explain-keyed text
C21_Witness ==
  \E c \in Clients :
    /\ pc[c] = "send"
    /\ request[c].action = JStr("translate")
    /\ request[c].persona = JStr("hacker")
    /\ request[c].content # JStr("")
    /\ Has(trace[c], "fallback")
    /\ ~Mentions(personas.hacker.system_prompt, "explain")
    /\ Env(c).response = FallbackExplain

\* a chat request gets the optimize-keyed text
C21_WitnessChat ==
  \E c \in Clients :
    /\ pc[c] = "send"
    /\ request[c].action = JStr("chat")
    /\ Has(trace[c], "fallback")
    /\ Env(c).response = FallbackOptimize

(***************************************************************************)
(* C22: in every reachable state offline_mode_available implies that both  *)
(* llama_model_path and llama_executable are set, so no local invocation   *)
(* is started without a model path or without an executable path; this     *)
(* holds after startup and after any number of re-initializations.         *)
(***************************************************************************)
C22_LocalPathsSet ==
  /\ offline_mode_available => (Truthy(llama_model_path) /\ Truthy(llama_executable))
  /\ \A c \in Clients :
       pc[c] = "local" => (Truthy(llama_model_path) /\ Truthy(llama_executable))

\* a local invocation is in flight after initialize() has run more than once
C22_Witness ==
  \E c \in Clients :
    /\ pc[c] = "local"
    /\ MaxInits > 1
    /\ offline_mode_available
    /\ llama_model_path = Some(BackendDir \o "/models/b.bin")
    /\ llama_executable = Some(possible_paths[2])

(***************************************************************************)
(* C23: every client that handle_client adds to connected_clients is       *)
(* removed from it when its handler ends, whichever way it ends (normal    *)
(* close, connection-closed exception, other exception, failure of the     *)
(* welcome send during registration); once all handlers have ended the set *)
(* is empty.                                                               *)
(***************************************************************************)
C23_EndedHandlersUnregistered ==
  /\ \A c \in Clients : pc[c] = "closed" => c \notin connected_clients
  /\ (\A c \in Clients : pc[c] = "closed") => connected_clients = {}
=============================================================================
